---- MODULE Spec2Model ----
(***************************************************************************)
(* Model of examples/Rust/rust-lib/lib.rs: the freestanding crate that     *)
(* exports `rust_add` under the C ABI and installs a panic handler that    *)
(* spins forever.                                                          *)
(*                                                                         *)
(* `a + b` on i32 is the only computation of the crate.  Rust defines it   *)
(* per build: with overflow checks compiled in (the default of a debug     *)
(* profile) an overflowing sum panics, without them (the default of a      *)
(* release profile) it wraps.  The source does not pin the profile, so the *)
(* build is a choice made once, in Init.                                   *)
(***************************************************************************)
EXTENDS Integers, FiniteSets

\* ---------------------------------------------------------------- bounds
NumThreads == 2
MaxMem == 1

\* ------------------------------------------------------------- constants
\* width of i32, the type of both parameters and of the result
Bits == 32

\* i32::MAX and i32::MIN
MaxI32 == 2147483647
MinI32 == -MaxI32 - 1
I32 == MinI32 .. MaxI32

\* the i32 values concurrent callers pass: both extremes, zero, and a small
\* value of either sign
Operands == {MinI32, -5, 0, 1, MaxI32}

\* the i32 values a single caller passes: the same, their neighbours, and
\* more small values of either sign
WideOperands == Operands \cup {MinI32 + 1, -12, -7, -1, 7, 12, MaxI32 - 1}

Threads == 1 .. NumThreads
Words == 0 .. MaxMem

VARIABLES
    overflow_checks,    \* build profile: is `a + b` compiled with the overflow check
    pc,                 \* per host thread: "idle", "rust_add", "returned", "panic"
    a, b,               \* per thread: the arguments of the call in progress
    ret,                \* per thread: the value returned by the last call
    mem                 \* the host's memory: everything outside the call's own frame

vars == <<overflow_checks, pc, a, b, ret, mem>>

\* ------------------------------------------------------ machine arithmetic
\* A 32-bit register is held as two half-words, <<hi, lo>>, each in
\* 0 .. Half - 1, so that no intermediate value leaves the range of the
\* integers the checker computes with.
Half == 2 ^ (Bits \div 2)

\* the 32-bit two's-complement pattern of an i32
ToBits(x) == <<(x \div Half) % Half, x % Half>>

\* the i32 a 32-bit pattern stands for: the top bit is the sign
FromBits(r) ==
    (IF r[1] >= Half \div 2 THEN r[1] - Half ELSE r[1]) * Half + r[2]

\* the sub instruction on i32
wrapping_sub(x, y) ==
    LET lo == ToBits(x)[2] - ToBits(y)[2]
        borrow == IF lo < 0 THEN 1 ELSE 0
        hi == ToBits(x)[1] - ToBits(y)[1] - borrow
    IN  FromBits(<<hi % Half, lo % Half>>)

\* an add that carries one in
wrapping_add_carry_in(x, y) ==
    LET lo == ToBits(x)[2] + ToBits(y)[2] + 1
        hi == ToBits(x)[1] + ToBits(y)[1] + lo \div Half
    IN  FromBits(<<hi % Half, lo % Half>>)

\* the add instruction on i32: the low 32 bits of the sum of the two patterns
wrapping_add(x, y) ==
    LET lo == ToBits(x)[2] + ToBits(y)[2]
        hi == ToBits(x)[1] + ToBits(y)[1] + lo \div Half
    IN  FromBits(<<hi % Half, lo % Half>>)

\* an overflow check that looks at the carry out of bit 31 (the unsigned flag)
add_overflows_carry(x, y) ==
    LET lo == ToBits(x)[2] + ToBits(y)[2]
        hi == ToBits(x)[1] + ToBits(y)[1] + lo \div Half
    IN  hi >= Half

\* the signed-overflow flag of the add: the operands agree in sign and the
\* result does not
add_overflows(x, y) ==
    /\ (x < 0) = (y < 0)
    /\ (wrapping_add(x, y) < 0) # (x < 0)

\* ----------------------------------------------------------------- state
Init ==
    /\ overflow_checks \in BOOLEAN
    /\ pc = [t \in Threads |-> "idle"]
    /\ a = [t \in Threads |-> 0]
    /\ b = [t \in Threads |-> 0]
    /\ ret = [t \in Threads |-> 0]
    /\ mem \in Words

\* ---------------------------------------------------------------- actions
\* the host calls the exported symbol with two i32 passed by value
Call(t, x, y) ==
    /\ pc[t] = "idle"
    /\ pc' = [pc EXCEPT ![t] = "rust_add"]
    /\ a' = [a EXCEPT ![t] = x]
    /\ b' = [b EXCEPT ![t] = y]
    /\ UNCHANGED <<overflow_checks, ret, mem>>

\* a rust_add that keeps its last sum in a static
rust_add_static(t) ==
    /\ pc[t] = "rust_add"
    /\ IF overflow_checks /\ add_overflows(a[t], b[t])
       THEN /\ pc' = [pc EXCEPT ![t] = "panic"]
            /\ UNCHANGED <<ret, mem>>
       ELSE /\ pc' = [pc EXCEPT ![t] = "returned"]
            /\ ret' = [ret EXCEPT ![t] = wrapping_add(a[t], b[t])]
            /\ mem' = wrapping_add(a[t], b[t]) % (MaxMem + 1)
    /\ UNCHANGED <<overflow_checks, a, b>>

\* a rust_add that returns through one result slot shared by all callers
rust_add_shared(t) ==
    /\ pc[t] = "rust_add"
    /\ IF overflow_checks /\ add_overflows(a[t], b[t])
       THEN /\ pc' = [pc EXCEPT ![t] = "panic"]
            /\ UNCHANGED ret
       ELSE /\ pc' = [pc EXCEPT ![t] = "returned"]
            /\ ret' = [u \in Threads |-> wrapping_add(a[t], b[t])]
    /\ UNCHANGED <<overflow_checks, a, b, mem>>

\* pub extern "C" fn rust_add(a: i32, b: i32) -> i32 { a + b }
rust_add(t) ==
    /\ pc[t] = "rust_add"
    /\ IF overflow_checks /\ add_overflows(a[t], b[t])
       THEN \* "attempt to add with overflow": control passes to the panic handler
            /\ pc' = [pc EXCEPT ![t] = "panic"]
            /\ UNCHANGED ret
       ELSE /\ pc' = [pc EXCEPT ![t] = "returned"]
            /\ ret' = [ret EXCEPT ![t] = wrapping_add(a[t], b[t])]
    /\ UNCHANGED <<overflow_checks, a, b, mem>>

\* the caller takes the returned value and its frame is gone
Return(t) ==
    /\ pc[t] = "returned"
    /\ pc' = [pc EXCEPT ![t] = "idle"]
    /\ a' = [a EXCEPT ![t] = 0]
    /\ b' = [b EXCEPT ![t] = 0]
    /\ ret' = [ret EXCEPT ![t] = 0]
    /\ UNCHANGED <<overflow_checks, mem>>

\* host code outside the call writes its own memory
HostWrite(t, w) ==
    /\ pc[t] = "idle"
    /\ mem' = w
    /\ UNCHANGED <<overflow_checks, pc, a, b, ret>>

\* a panic handler that comes back to the caller of the panicking function
panic_returns(t) ==
    /\ pc[t] = "panic"
    /\ pc' = [pc EXCEPT ![t] = "returned"]
    /\ UNCHANGED <<overflow_checks, a, b, ret, mem>>

\* fn panic(_info: &PanicInfo) -> ! { loop {} }: one turn of the loop
panic(t) ==
    /\ pc[t] = "panic"
    /\ UNCHANGED vars

Next ==
    \/ \E t \in Threads, x \in Operands, y \in Operands : Call(t, x, y)
    \/ \E t \in Threads : rust_add(t)
    \/ \E t \in Threads : Return(t)
    \/ \E t \in Threads, w \in Words : HostWrite(t, w)
    \/ \E t \in Threads : panic(t)

Spec == Init /\ [][Next]_vars

\* a host with one thread of control: every call is made from thread 1
SeqNext ==
    \/ \E x \in WideOperands, y \in WideOperands : Call(1, x, y)
    \/ rust_add(1)
    \/ Return(1)
    \/ \E w \in Words : HostWrite(1, w)
    \/ panic(1)

SeqSpec == Init /\ [][SeqNext]_vars

\* a thread that can run does run
FairSpec ==
    /\ Spec
    /\ \A t \in Threads : WF_vars(rust_add(t)) /\ WF_vars(Return(t))

TypeOK ==
    /\ overflow_checks \in BOOLEAN
    /\ pc \in [Threads -> {"idle", "rust_add", "returned", "panic"}]
    /\ a \in [Threads -> I32]
    /\ b \in [Threads -> I32]
    /\ ret \in [Threads -> I32]
    /\ mem \in Words

\* ------------------------------------------------ the arithmetic of the claims
\* Stated on the integers, by cases, without the machine's bit patterns.

\* the call of thread t has run to its end, one way or the other
Completed(t) == pc[t] \in {"returned", "panic"}

\* the mathematical sum x + y lies in [-2^31, 2^31 - 1]
InRange(x, y) == IF y >= 0 THEN x <= MaxI32 - y ELSE x >= MinI32 - y

\* the value in [-2^31, 2^31 - 1] congruent to x + y modulo 2^32:
\* x + y itself, x + y - 2^32 above the range, x + y + 2^32 below it
WrapSum(x, y) ==
    IF InRange(x, y) THEN x + y
    ELSE IF y >= 0 THEN (x + MinI32) + (y + MinI32)
    ELSE (x - MinI32) + (y - MinI32)

\* ------------------------------------------------------------------ claims

\* C1: every call of rust_add, for any two i32 (negative ones included),
\* returns the two's-complement wraparound sum of its arguments.
C1_ReturnsWrapSum ==
    \A t \in Threads :
        Completed(t) => pc[t] = "returned" /\ ret[t] = WrapSum(a[t], b[t])

\* C2: when the mathematical sum leaves [-2^31, 2^31 - 1] the call does not
\* trap: it returns the sum moved back into range by 2^32, and
\* add(2147483647, 1) returns -2147483648.
C2_OverflowWrapsSilently ==
    \A t \in Threads :
        (Completed(t) /\ ~InRange(a[t], b[t])) =>
            /\ pc[t] # "panic"
            /\ ret[t] = IF b[t] >= 0
                        THEN (a[t] + MinI32) + (b[t] + MinI32)
                        ELSE (a[t] - MinI32) + (b[t] - MinI32)
            /\ (a[t] = MaxI32 /\ b[t] = 1) => ret[t] = MinI32

\* C3: no call of add, whatever its arguments, enters the panic handler's
\* halt loop.
C3_NeverPanics == \A t \in Threads : pc[t] # "panic"

\* C4: add(a, b) and add(b, a) end the same way and return the same value,
\* overflowing pairs included.
C4_Commutative ==
    \A t, u \in Threads :
        (Completed(t) /\ Completed(u) /\ a[t] = b[u] /\ b[t] = a[u]) =>
            pc[t] = pc[u] /\ ret[t] = ret[u]

C4_Witness ==
    \E t, u \in Threads :
        /\ pc[t] = "returned" /\ pc[u] = "returned"
        /\ a[t] = MaxI32 /\ b[t] = 1
        /\ a[u] = 1 /\ b[u] = MaxI32

\* C5: add(a, 0) returns a for every a, i32::MIN and i32::MAX included.
C5_Identity ==
    \A t \in Threads :
        (Completed(t) /\ b[t] = 0) => pc[t] = "returned" /\ ret[t] = a[t]

C5_Witness ==
    \E t \in Threads :
        /\ overflow_checks
        /\ pc[t] = "returned" /\ a[t] = MinI32 /\ b[t] = 0 /\ ret[t] = MinI32

\* C6: rust_add is pure.  The step that runs it leaves the host's memory and
\* its own arguments as they were, and it ends exactly as every call with
\* the same arguments that ended before it, whatever the memory held then
\* and whatever calls came in between.
C6_Pure ==
    [][\A t \in Threads :
          (pc[t] = "rust_add" /\ pc'[t] # "rust_add") =>
              /\ mem' = mem
              /\ a'[t] = a[t] /\ b'[t] = b[t]
              /\ \A u \in Threads \ {t} :
                    (Completed(u) /\ a[u] = a[t] /\ b[u] = b[t]) =>
                        pc'[t] = pc[u] /\ ret'[t] = ret[u]]_vars

C6_Witness ==
    \E t, u \in Threads :
        /\ t # u
        /\ pc[t] = "returned" /\ pc[u] = "returned"
        /\ a[t] = a[u] /\ b[t] = b[u]
        /\ a[t] = MinI32 /\ b[t] = -5
        /\ mem # 0

\* C7: every call of add eventually returns to its caller.
C7_CallReturns ==
    \A t \in Threads : (pc[t] = "rust_add") ~> (pc[t] = "returned")

\* C8: once a thread is in the panic handler it stays there, its registers
\* frozen; when every thread is there nothing changes any more (the process
\* hangs: it neither terminates, recovers nor reports).
C8_HaltsForever ==
    [][/\ \A t \in Threads :
             pc[t] = "panic" =>
                 /\ pc'[t] = "panic"
                 /\ a'[t] = a[t] /\ b'[t] = b[t] /\ ret'[t] = ret[t]
       /\ (\A t \in Threads : pc[t] = "panic") => UNCHANGED vars]_vars

C8_Witness == \A t \in Threads : pc[t] = "panic"

\* C9: calls running at the same time do not touch each other.  The step
\* that runs one call leaves every other thread's call as it was, and two
\* calls that have ended with equal arguments have ended the same way,
\* whatever ran beside them.
C9_Independent ==
    [][/\ \A t \in Threads :
             (pc[t] = "rust_add" /\ pc'[t] # "rust_add") =>
                 \A u \in Threads \ {t} :
                    /\ pc'[u] = pc[u] /\ ret'[u] = ret[u]
                    /\ a'[u] = a[u] /\ b'[u] = b[u]
       /\ \A t, u \in Threads :
             (Completed(t)' /\ Completed(u)' /\ a'[t] = a'[u] /\ b'[t] = b'[u]) =>
                 pc'[t] = pc'[u] /\ ret'[t] = ret'[u]]_vars

C9_Witness ==
    \E t, u \in Threads :
        /\ pc[t] = "returned" /\ a[t] = -5 /\ b[t] = 1 /\ ret[t] = -4
        /\ pc[u] = "rust_add" /\ a[u] = MaxI32 /\ b[u] = MaxI32

\* C10: when the mathematical sum is in [-2^31, 2^31 - 1] the call returns
\* exactly that sum in either build; the panic handler is reached only by
\* a build with overflow checks and a sum outside the range.
C10_InRangeExact ==
    \A t \in Threads :
        /\ (Completed(t) /\ InRange(a[t], b[t])) =>
               pc[t] = "returned" /\ ret[t] = a[t] + b[t]
        /\ pc[t] = "panic" => overflow_checks /\ ~InRange(a[t], b[t])

C10_Witness ==
    \E t \in Threads :
        /\ overflow_checks
        /\ pc[t] = "returned"
        /\ a[t] = MaxI32 - 1 /\ b[t] = 1 /\ ret[t] = MaxI32

====
